---- MODULE Spec2Model ----
(***************************************************************************)
(* prometheus-mdns-rs: src/main.rs.                                        *)
(*                                                                         *)
(* Two threads share one mpsc channel.  The producer thread (discover)     *)
(* decodes mDNS responses into Service values stamped with Instant::now()  *)
(* and sends them.  The main thread loops: record the registry size, drain *)
(* the channel with try_recv, retain the entries younger than TIMEOUT,     *)
(* publish the registry when one of the two size comparisons differs, and  *)
(* sleep INTERVAL.                                                         *)
(*                                                                         *)
(* Clock.  `now` is the monotonic clock read by Instant::now(), in         *)
(* seconds, observed at a resolution of TickStep (Spec, up to             *)
(* MaxResponses responses) or FineStep (SpecFine, up to MaxFineResponses   *)
(* responses).  The steps of one loop iteration take no time at that       *)
(* resolution and sleep(INTERVAL) returns at its deadline, so the clock    *)
(* advances only while the main thread sleeps; the producer may run at any *)
(* instant, before, between and after the steps of an iteration.           *)
(*                                                                         *)
(* SpecLog runs up to MaxLogResponses responses, among them responses     *)
(* that lack a record the closure looks for, and logs the records sent and *)
(* the records inserted.  SpecFlood runs a stream that never runs dry,     *)
(* with the main thread scheduled fairly.                                  *)
(*                                                                         *)
(* Strings are sequences of tokens ("=" and ":" are tokens of their own);  *)
(* Option values are sequences of length 0 (None) or 1 (Some).             *)
(***************************************************************************)
EXTENDS Integers, Sequences, FiniteSets, TLC

\* ------------------------------------------------------------------ bounds
MaxTime == 75
MaxResponses == 4
MaxFineResponses == 2
MaxChan == 2
MaxLogResponses == 2

\* --------------------------------------------------------------- constants
SERVICE_NAME == <<"_prometheus-http", "_tcp", "local">>
TIMEOUT == 60
INTERVAL == 15
\* the two resolutions at which the clock is observed: once per sleep, and
\* three times per sleep
TickStep == INTERVAL
FineStep == INTERVAL \div 3

None == <<>>
Some(x) == <<x>>

\* ------------------------------------------------------- mdns record model
V4(ip) == [v |-> "V4", ip |-> ip]
V6(ip) == [v |-> "V6", ip |-> ip]

RecA(name, ip) == [name |-> name, kind |-> [tag |-> "A", addr |-> ip]]
RecAAAA(name, ip) == [name |-> name, kind |-> [tag |-> "AAAA", addr |-> ip]]
RecSRV(name, port) == [name |-> name, kind |-> [tag |-> "SRV", port |-> port]]
RecTXT(name, txt) == [name |-> name, kind |-> [tag |-> "TXT", txt |-> txt]]
RecPTR(name) == [name |-> name, kind |-> [tag |-> "PTR"]]

\* str::contains: sub occurs in s as a contiguous run
Contains(s, sub) ==
    \E i \in 0..(Len(s) - Len(sub)) : SubSeq(s, i + 1, i + Len(sub)) = sub

\* str::split(sep): the pieces between the occurrences of sep, in order
RECURSIVE Split(_, _)
Split(s, sep) ==
    IF \A i \in 1..Len(s) : s[i] # sep
    THEN <<s>>
    ELSE LET k == CHOOSE i \in 1..Len(s) :
                      s[i] = sep /\ \A j \in 1..(i - 1) : s[j] # sep
         IN <<SubSeq(s, 1, k - 1)>> \o Split(SubSeq(s, k + 1, Len(s)), sep)

to_ip_addr(record) ==
    CASE record.kind.tag = "A" -> Some(V4(record.kind.addr))
      [] record.kind.tag = "AAAA" -> Some(V6(record.kind.addr))
      [] OTHER -> None

\* an extractor that takes the port of any SRV record
to_port_any(record) ==
    IF record.kind.tag = "SRV" THEN Some(record.kind.port) ELSE None

to_port(record) ==
    IF record.kind.tag = "SRV" /\ Contains(record.name, SERVICE_NAME)
    THEN Some(record.kind.port)
    ELSE None

\* the loop over the pairs of one TXT record: the first pair that splits
\* into at least two parts with the first part equal to "name"
RECURSIVE NameOfPairs(_)
NameOfPairs(txt) ==
    IF txt = <<>> THEN None
    ELSE LET parts == Split(Head(txt), "=")
         IN IF Len(parts) >= 2 /\ parts[1] = <<"name">>
            THEN Some(parts[2])
            ELSE NameOfPairs(Tail(txt))

to_name(record) ==
    IF record.kind.tag = "TXT" THEN NameOfPairs(record.kind.txt) ELSE None

\* records.filter_map(f).next() for the three extractors
RECURSIVE FirstAddr(_)
FirstAddr(records) ==
    IF records = <<>> THEN None
    ELSE IF to_ip_addr(Head(records)) # None THEN to_ip_addr(Head(records))
    ELSE FirstAddr(Tail(records))

RECURSIVE FirstPort(_)
FirstPort(records) ==
    IF records = <<>> THEN None
    ELSE IF to_port(Head(records)) # None THEN to_port(Head(records))
    ELSE FirstPort(Tail(records))

RECURSIVE FirstName(_)
FirstName(records) ==
    IF records = <<>> THEN None
    ELSE IF to_name(Head(records)) # None THEN to_name(Head(records))
    ELSE FirstName(Tail(records))

\* the closure of for_each: the Service it sends for a response at time t,
\* or None when it sends nothing
Decode(response, t) ==
    IF \E i \in 1..Len(response) : response[i].name = SERVICE_NAME
    THEN LET addr == FirstAddr(response)
             port == FirstPort(response)
             name == FirstName(response)
         IN IF addr # None /\ name # None /\ port # None
            THEN Some([name |-> name[1], addr |-> addr[1],
                       port |-> port[1], last_seen |-> t])
            ELSE None
    ELSE None

\* ----------------------------------------------------- responses (inputs)
Inst(host) == <<host>> \o SERVICE_NAME
Host(host) == <<host, "local">>

Announce(host, ip, port, label) ==
    << RecPTR(SERVICE_NAME),
       RecSRV(Inst(host), port),
       RecTXT(Inst(host), << <<"path", "=", "/metrics">>, <<"name", "=", label>> >>),
       RecA(Host(host), ip) >>

Responses ==
    { Announce("h1", "10.0.0.5", 9100, "node1"),
      Announce("h1", "10.0.0.5", 9200, "node2"),
      Announce("h2", "10.0.0.6", 9100, "node1"),
      \* matching service type, no SRV record
      << RecPTR(SERVICE_NAME),
         RecTXT(Inst("h1"), << <<"name", "=", "node1">> >>),
         RecA(Host("h1"), "10.0.0.5") >>,
      \* another service type on the same segment
      << RecPTR(<<"_ipp", "_tcp", "local">>),
         RecSRV(<<"p1", "_ipp", "_tcp", "local">>, 631),
         RecTXT(<<"p1", "_ipp", "_tcp", "local">>, << <<"name", "=", "printer">> >>),
         RecAAAA(<<"p1", "local">>, "fe80::1") >> }

\* the responses of the logged runs: the announcements, and responses that
\* lack one of the things the closure looks for
LogResponses ==
    { Announce("h1", "10.0.0.5", 9100, "node1"),
      Announce("h2", "10.0.0.6", 9100, "node2"),
      \* no SRV record
      << RecPTR(SERVICE_NAME),
         RecTXT(Inst("h1"), << <<"name", "=", "node1">> >>),
         RecA(Host("h1"), "10.0.0.5") >>,
      \* no A or AAAA record
      << RecPTR(SERVICE_NAME),
         RecSRV(Inst("h1"), 9100),
         RecTXT(Inst("h1"), << <<"name", "=", "node1">> >>) >>,
      \* no pair of key name: a bare name, and a longer key
      << RecPTR(SERVICE_NAME),
         RecSRV(Inst("h1"), 9100),
         RecTXT(Inst("h1"), << <<"name">>, <<"names", "=", "node1">> >>),
         RecA(Host("h1"), "10.0.0.5") >>,
      \* the SRV record is owned by another service
      << RecPTR(SERVICE_NAME),
         RecSRV(<<"p1", "_ipp", "_tcp", "local">>, 631),
         RecTXT(Inst("h1"), << <<"name", "=", "node1">> >>),
         RecA(Host("h1"), "10.0.0.5") >>,
      \* address, port and name, but no record named SERVICE_NAME
      << RecSRV(Inst("h1"), 9100),
         RecTXT(Inst("h1"), << <<"name", "=", "node1">> >>),
         RecA(Host("h1"), "10.0.0.5") >>,
      \* the value of name holds a '='
      << RecPTR(SERVICE_NAME),
         RecSRV(Inst("h1"), 9100),
         RecTXT(Inst("h1"), << <<"name", "=", "rack", "=", "7">> >>),
         RecAAAA(Host("h1"), "fe80::5") >>,
      \* two TXT records, the first without a name; two name pairs in the
      \* second
      << RecPTR(SERVICE_NAME),
         RecTXT(Inst("h1"), << <<"path", "=", "/metrics">>, <<"name">> >>),
         RecTXT(Inst("h1"), << <<"name", "=", "node1">>, <<"name", "=", "node9">> >>),
         RecSRV(Inst("h1"), 9100),
         RecA(Host("h1"), "10.0.0.5") >> }

\* the responses of the stream that never runs dry
FloodResponses ==
    { Announce("h1", "10.0.0.5", 9100, "node1"),
      Announce("h1", "10.0.0.5", 9200, "node2") }

\* --------------------------------------------------------------- channel
\* a queue that hands out the record sent last first
SendFront(queue, service) == <<service>> \o queue

\* Sender::send on the unbounded channel: the record joins the queue's end
Send(queue, service) == Append(queue, service)

\* Receiver::try_recv returning Ok: the record at the head of the queue ...
Received(queue) == Head(queue)

\* a receive that leaves the record in the queue
RemainingPeek(queue) == queue

\* ... is removed from the queue
Remaining(queue) == Tail(queue)

\* ------------------------------------------------------- registry, output
\* a registry that keeps the entry it already has for the address
InsertIfAbsent(map, service) ==
    [a \in (DOMAIN map) \cup {service.addr} |->
        IF a \in DOMAIN map THEN map[a] ELSE service]

\* a registry that overwrites name and port and keeps the old last_seen
InsertKeepSeen(map, service) ==
    [a \in (DOMAIN map) \cup {service.addr} |->
        IF a # service.addr THEN map[a]
        ELSE IF a \in DOMAIN map
             THEN [service EXCEPT !.last_seen = map[a].last_seen]
             ELSE service]

\* HashMap::insert(service.addr, service)
Insert(map, service) ==
    [a \in (DOMAIN map) \cup {service.addr} |->
        IF a = service.addr THEN service ELSE map[a]]

\* an expiry that keeps an entry at the very timeout
RetainLe(map, t) ==
    [a \in {b \in DOMAIN map : t - map[b].last_seen <= TIMEOUT} |-> map[a]]

\* HashMap::retain(|_, s| t.duration_since(s.last_seen) < TIMEOUT)
Retain(map, t) ==
    [a \in {b \in DOMAIN map : t - map[b].last_seen < TIMEOUT} |-> map[a]]

Size(map) == Cardinality(DOMAIN map)

\* a publisher that runs in every iteration
ChangedAlways(start_count, added_count, removed_count) == TRUE

\* a publisher that looks at the insertions only
ChangedAddedOnly(start_count, added_count, removed_count) ==
    start_count # added_count

\* a publisher that looks at the expiries only
ChangedRemovedOnly(start_count, added_count, removed_count) ==
    added_count # removed_count

\* line 73: the condition of the if that guards publication
Changed(start_count, added_count, removed_count) ==
    start_count # added_count \/ added_count # removed_count

\* impl From<&Service> for PrometheusService
Format(addr, port) == <<addr.ip, ":", port>>
PrometheusService(service) ==
    [targets |-> <<Format(service.addr, service.port)>>,
     labels |-> [name |-> service.name]]

\* services.iter().map(into).collect(): the order of iteration is not
\* defined, so the snapshot is the set of its elements
Snapshot(map) == {PrometheusService(map[a]) : a \in DOMAIN map}

\* ----------------------------------------------------------------- state
VARIABLES
    now,            \* the clock
    out,            \* "None": no path argument; "Some": an AtomicFile
    services,       \* the registry, keyed by address
    chan,           \* the queue of the mpsc channel
    pc,             \* main thread: start, drain, sleep, exited
    start_count,    \* the binding of line 61
    wake_at,        \* deadline of the sleep in progress
    dpc,            \* producer thread: init, running, stopped, panicked
    nresp,          \* responses the stream has yielded
    stderr,         \* number of errors printed by map_err
    npub,           \* number of times the publishing branch was taken
    last_pub,       \* the snapshot serialized by the last of them
    stdout,         \* the last line printed to standard output
    file,           \* the contents of the file at the path
    cycle_start,    \* history: the registry at line 61 of this iteration
    drained,        \* history: the records received in this iteration
    nsent,          \* history: records sent to the channel: 0, 1, or 2 for more
    only_sent,      \* history: the record sent, while it is the only one
    last_response,  \* log: the response the closure ran on last
    sent_log,       \* log: the records sent to the channel, in order
    applied_log     \* log: the records inserted in the registry, in order

vars == <<now, out, services, chan, pc, start_count, wake_at, dpc, nresp,
          stderr, npub, last_pub, stdout, file, cycle_start, drained, nsent,
          only_sent, last_response, sent_log, applied_log>>

aggVars == <<services, pc, start_count, wake_at, npub, last_pub, stdout,
             file, cycle_start, drained>>
prodVars == <<dpc, nresp, stderr, nsent, only_sent>>
\* the logs are kept by the logged steps only
logVars == <<last_response, sent_log, applied_log>>

Empty == [a \in {} |-> 0]

Init ==
    /\ now = 0
    /\ out \in {"None", "Some"}
    /\ services = Empty
    /\ chan = <<>>
    /\ pc = "start"
    /\ start_count = 0
    /\ wake_at = 0
    /\ dpc = "init"
    /\ nresp = 0
    /\ stderr = 0
    /\ npub = 0
    /\ last_pub = None
    /\ stdout = None
    /\ file = None
    /\ cycle_start = Empty
    /\ drained = <<>>
    /\ nsent = 0
    /\ only_sent = None
    /\ last_response = None
    /\ sent_log = <<>>
    /\ applied_log = <<>>

Alive == pc # "exited"

\* ------------------------------------------------------------ main thread
\* line 61
EnterLoop ==
    /\ start_count' = Size(services)
    /\ cycle_start' = services
    /\ pc' = "drain"

\* lines 58-61: the first iteration begins
Begin ==
    /\ pc = "start"
    /\ EnterLoop
    /\ UNCHANGED <<now, out, services, chan, wake_at, npub, last_pub, stdout,
                   file, drained>>
    /\ UNCHANGED prodVars
    /\ UNCHANGED logVars

\* lines 63-64: try_recv returned Ok and the record is inserted
RecvStep ==
    /\ pc = "drain"
    /\ chan # <<>>
    /\ services' = Insert(services, Received(chan))
    /\ chan' = Remaining(chan)
    /\ UNCHANGED <<now, out, pc, start_count, wake_at, npub, last_pub, stdout,
                   file, cycle_start>>
    /\ UNCHANGED prodVars

Recv ==
    /\ RecvStep
    /\ drained' = Append(drained, Received(chan))
    /\ UNCHANGED logVars

\* the same step, with the record added to the log of the applied records
RecvLogged ==
    /\ RecvStep
    /\ drained' = Append(drained, Received(chan))
    /\ applied_log' = Append(applied_log, Received(chan))
    /\ UNCHANGED <<last_response, sent_log>>

\* the same step in a run whose length is not bounded: nothing is logged
RecvFlood ==
    /\ RecvStep
    /\ UNCHANGED drained
    /\ UNCHANGED logVars

\* lines 63-73: try_recv returned Err (Empty, or Disconnected once the sender
\* is dropped and the queue is empty), the registry is counted, expired and
\* counted again; publish tells whether the condition of line 73 holds
Settle(publish) ==
    /\ pc = "drain"
    /\ chan = <<>>
    /\ LET added_count == Size(services)
           removed_count == Size(Retain(services, now))
       IN publish = Changed(start_count, added_count, removed_count)
    /\ services' = Retain(services, now)

\* line 86: sleep(INTERVAL) begins; the bindings of the iteration are dead
Sleep ==
    /\ pc' = "sleep"
    /\ wake_at' = now + INTERVAL
    /\ start_count' = 0
    /\ cycle_start' = Empty
    /\ drained' = <<>>

\* lines 63-86 with the condition of line 73 false
NoPublish ==
    /\ Settle(FALSE)
    /\ Sleep
    /\ UNCHANGED <<now, out, chan, npub, last_pub, stdout, file>>
    /\ UNCHANGED prodVars
    /\ UNCHANGED logVars

\* lines 63-86, Some(path): AtomicFile::write replaces the file, or fails and
\* leaves it as it was; its result is dropped
PublishFile ==
    /\ Settle(TRUE)
    /\ out = "Some"
    /\ npub' = npub + 1
    /\ last_pub' = Some(Snapshot(services'))
    /\ \E ok \in BOOLEAN : file' = IF ok THEN Some(Snapshot(services')) ELSE file
    /\ Sleep
    /\ UNCHANGED <<now, out, chan, stdout>>
    /\ UNCHANGED prodVars
    /\ UNCHANGED logVars

\* lines 63-86, None: println! prints the line
PublishStdout ==
    /\ Settle(TRUE)
    /\ out = "None"
    /\ npub' = npub + 1
    /\ last_pub' = Some(Snapshot(services'))
    /\ stdout' = Some(Snapshot(services'))
    /\ Sleep
    /\ UNCHANGED <<now, out, chan, file>>
    /\ UNCHANGED prodVars
    /\ UNCHANGED logVars

\* lines 63-82, None: println! panics when the write to stdout fails, and a
\* panic of the main thread ends the process
PublishStdoutFail ==
    /\ Settle(TRUE)
    /\ out = "None"
    /\ npub' = npub + 1
    /\ last_pub' = Some(Snapshot(services'))
    /\ pc' = "exited"
    /\ UNCHANGED <<now, out, chan, start_count, wake_at, stdout, file,
                   cycle_start, drained>>
    /\ UNCHANGED prodVars
    /\ UNCHANGED logVars

\* lines 86, 61: sleep returns and the next iteration begins
Wake ==
    /\ pc = "sleep"
    /\ now >= wake_at
    /\ EnterLoop
    /\ UNCHANGED <<now, out, services, chan, wake_at, npub, last_pub, stdout,
                   file, drained>>
    /\ UNCHANGED prodVars
    /\ UNCHANGED logVars

\* the clock advances while the main thread sleeps
TickBy(step) ==
    /\ pc = "sleep"
    /\ now < wake_at
    /\ now + step <= MaxTime
    /\ now' = now + step
    /\ UNCHANGED <<out, chan>>
    /\ UNCHANGED aggVars
    /\ UNCHANGED prodVars
    /\ UNCHANGED logVars

Tick == TickBy(TickStep)
TickFine == TickBy(FineStep)

\* -------------------------------------------------------- producer thread
\* lines 92-93: discover::all returned Ok
DiscoverStart ==
    /\ Alive
    /\ dpc = "init"
    /\ dpc' = "running"
    /\ UNCHANGED <<now, out, chan, nresp, stderr, nsent, only_sent>>
    /\ UNCHANGED aggVars
    /\ UNCHANGED logVars

\* lines 92-93: discover::all returned Err; unwrap panics in the spawned
\* thread, which ends that thread and drops tx
DiscoverFail ==
    /\ Alive
    /\ dpc = "init"
    /\ dpc' = "panicked"
    /\ UNCHANGED <<now, out, chan, nresp, stderr, nsent, only_sent>>
    /\ UNCHANGED aggVars
    /\ UNCHANGED logVars

\* lines 94-114: the closure of for_each runs on a response of the stream
Handle(response) ==
    /\ Alive
    /\ dpc = "running"
    /\ LET s == Decode(response, now)
       IN IF s # None
          THEN /\ Len(chan) < MaxChan
               /\ chan' = Send(chan, s[1])
               /\ nsent' = IF nsent = 0 THEN 1 ELSE 2
               /\ only_sent' = IF nsent = 0 THEN s ELSE None
          ELSE UNCHANGED <<chan, nsent, only_sent>>
    /\ UNCHANGED <<now, out, dpc, stderr>>
    /\ UNCHANGED aggVars

\* lines 94-114: the stream yields a response, one of at most max
OnResponseUpTo(response, max) ==
    /\ nresp < max
    /\ nresp' = nresp + 1
    /\ Handle(response)
    /\ UNCHANGED logVars

OnResponse(response) == OnResponseUpTo(response, MaxResponses)
OnResponseFine(response) == OnResponseUpTo(response, MaxFineResponses)

\* the same step, with the response and the record sent added to the logs
OnResponseLogged(response) ==
    /\ nresp < MaxLogResponses
    /\ nresp' = nresp + 1
    /\ Handle(response)
    /\ last_response' = Some(response)
    /\ sent_log' = sent_log \o Decode(response, now)
    /\ UNCHANGED applied_log

\* the same step of a stream that never runs dry: responses are not counted
OnResponseFlood(response) ==
    /\ Handle(response)
    /\ UNCHANGED nresp
    /\ UNCHANGED logVars

\* lines 94, 115-116: the stream yields an error; for_each resolves to it,
\* map_err prints it, tokio::run and discover return and tx is dropped
StreamError ==
    /\ Alive
    /\ dpc = "running"
    /\ stderr' = stderr + 1
    /\ dpc' = "stopped"
    /\ UNCHANGED <<now, out, chan, nresp, nsent, only_sent>>
    /\ UNCHANGED aggVars
    /\ UNCHANGED logVars

Next ==
    \/ Begin
    \/ Recv
    \/ NoPublish
    \/ PublishFile
    \/ PublishStdout
    \/ PublishStdoutFail
    \/ Wake
    \/ Tick
    \/ DiscoverStart
    \/ DiscoverFail
    \/ \E response \in Responses : OnResponse(response)
    \/ StreamError

Spec == Init /\ [][Next]_vars

NextFine ==
    \/ Begin
    \/ Recv
    \/ NoPublish
    \/ PublishFile
    \/ PublishStdout
    \/ PublishStdoutFail
    \/ Wake
    \/ TickFine
    \/ DiscoverStart
    \/ DiscoverFail
    \/ \E response \in Responses : OnResponseFine(response)
    \/ StreamError

SpecFine == Init /\ [][NextFine]_vars

\* the logged runs: up to MaxLogResponses responses of LogResponses
NextLog ==
    \/ Begin
    \/ RecvLogged
    \/ NoPublish
    \/ PublishFile
    \/ PublishStdout
    \/ PublishStdoutFail
    \/ Wake
    \/ Tick
    \/ DiscoverStart
    \/ DiscoverFail
    \/ \E response \in LogResponses : OnResponseLogged(response)
    \/ StreamError

SpecLog == Init /\ [][NextLog]_vars

\* the runs of a stream that never runs dry
NextFlood ==
    \/ Begin
    \/ RecvFlood
    \/ NoPublish
    \/ PublishFile
    \/ PublishStdout
    \/ PublishStdoutFail
    \/ Wake
    \/ Tick
    \/ DiscoverStart
    \/ DiscoverFail
    \/ \E response \in FloodResponses : OnResponseFlood(response)
    \/ StreamError

\* a step of the main thread other than the passing of time in its sleep
MainStepFlood ==
    \/ Begin
    \/ RecvFlood
    \/ NoPublish
    \/ PublishFile
    \/ PublishStdout
    \/ PublishStdoutFail
    \/ Wake

\* the main thread is scheduled: a step it can take, it takes; and time
\* passes while it sleeps (up to MaxTime)
SpecFlood ==
    /\ Init
    /\ [][NextFlood]_vars
    /\ WF_vars(MainStepFlood)
    /\ WF_vars(Tick)

\* ------------------------------------------------------------ properties
AddrsOf(records) == {records[i].addr : i \in 1..Len(records)}

\* the record of address a that was received last
LastFor(a, records) ==
    LET k == CHOOSE i \in 1..Len(records) :
                 /\ records[i].addr = a
                 /\ \A j \in (i + 1)..Len(records) : records[j].addr # a
    IN records[k]

\* the step that ends the drain: expiry, the publication or not, the sleep
CycleEnd == pc = "drain" /\ pc' # "drain"

\* while the main thread sleeps: the instant of the expiry check it ran
ExpiryTime == wake_at - INTERVAL

\* C1: while and after the drain, the registry holds for every address
\* received in this iteration exactly the record received last for it, whole
\* (name, port and last_seen), and nothing else has been touched.
C1_LastArrivalWins ==
    pc = "drain" =>
        /\ DOMAIN services = DOMAIN cycle_start \cup AddrsOf(drained)
        /\ \A a \in AddrsOf(drained) : services[a] = LastFor(a, drained)
        /\ \A a \in DOMAIN cycle_start \ AddrsOf(drained) :
              services[a] = cycle_start[a]

\* two records of one address, differing in name and port, were drained
C1_Witness ==
    /\ pc = "drain"
    /\ chan = <<>>
    /\ \E i, j \in 1..Len(drained) :
          /\ i < j
          /\ drained[i].addr = drained[j].addr
          /\ drained[i].name # drained[j].name
          /\ drained[i].port # drained[j].port

\* C2: after every expiry step every entry left is younger than TIMEOUT at
\* the instant of the check, so an address last observed TIMEOUT or more
\* before it is absent.
C2_ExpiredAreAbsent ==
    pc = "sleep" =>
        \A a \in DOMAIN services :
            ExpiryTime - services[a].last_seen < TIMEOUT

\* an expiry step has emptied a registry that was published non-empty
C2_Witness ==
    /\ pc = "sleep"
    /\ now = ExpiryTime
    /\ now >= TIMEOUT
    /\ services = Empty
    /\ npub >= 2
    /\ last_pub = Some({})

\* C3: an expiry check removes no entry that is younger than TIMEOUT and no
\* entry of an address for which a record was drained in the same iteration:
\* a record that follows the previous one of its address by less than
\* TIMEOUT keeps the address in the registry.
C3_RefreshKeepsEntry ==
    [][CycleEnd =>
          \A a \in DOMAIN services :
              (a \in AddrsOf(drained) \/ now - services[a].last_seen < TIMEOUT)
                  => (a \in DOMAIN services' /\ services'[a] = services[a])]_vars

\* the entry the iteration began with has reached the timeout, and a record
\* stamped one step of the clock less than TIMEOUT after it has just
\* replaced it
C3_Witness ==
    /\ pc = "drain"
    /\ chan = <<>>
    /\ \E a \in AddrsOf(drained) \cap DOMAIN cycle_start :
          /\ now - cycle_start[a].last_seen >= TIMEOUT
          /\ services[a].last_seen - cycle_start[a].last_seen = TIMEOUT - FineStep

\* C4: an iteration publishes only if the set of registered addresses at
\* its end differs from the set at its start.
C4_PublishOnlyOnChange ==
    [][npub' # npub => DOMAIN services' # DOMAIN cycle_start]_vars

\* a second publication has happened and the loop has gone on
C4_Witness ==
    /\ pc = "drain"
    /\ npub >= 2
    /\ services # Empty

\* C5: when exactly one record has been sent, the publications are, in
\* order, the one-entry snapshot of that record and the empty snapshot: none
\* before the record is drained, one once it is, two once an expiry check
\* has run TIMEOUT after it was stamped, and never a third.
C5_OneObservationTwoPublications ==
    nsent = 1 =>
        LET s == only_sent[1]
            e == [targets |-> << <<s.addr.ip, ":", s.port>> >>,
                  labels |-> [name |-> s.name]]
        IN /\ npub <= 2
           /\ npub = 0 => last_pub = None
           /\ npub = 1 => last_pub = Some({e})
           /\ npub = 2 => last_pub = Some({})
           /\ (pc = "sleep" /\ chan = <<>>) => npub >= 1
           /\ (pc = "sleep" /\ chan = <<>>
                 /\ ExpiryTime - s.last_seen < TIMEOUT) => npub = 1
           /\ (pc = "sleep" /\ ExpiryTime - s.last_seen >= TIMEOUT) => npub = 2

\* 10.0.0.5:9100 name=node1 was the only record; both publications are done
C5_Witness ==
    /\ nsent = 1
    /\ only_sent[1].addr = V4("10.0.0.5")
    /\ only_sent[1].port = 9100
    /\ only_sent[1].name = <<"node1">>
    /\ npub = 2
    /\ last_pub = Some({})
    /\ pc = "sleep"
    /\ now > ExpiryTime

\* every address drained in this iteration is in snapshot with the name and
\* port of its last record
HoldsDrained(snapshot) ==
    \A a \in AddrsOf(drained) :
        LET s == LastFor(a, drained)
        IN [targets |-> << <<s.addr.ip, ":", s.port>> >>,
            labels |-> [name |-> s.name]] \in snapshot

\* C6 as claimed: an iteration that drains records of two distinct addresses
\* publishes exactly once, a snapshot holding both.
C6_TwoDrainedOnePublication ==
    [][(CycleEnd /\ Cardinality(AddrsOf(drained)) >= 2) =>
          (npub' = npub + 1 /\ HoldsDrained(last_pub'[1]))]_vars

\* C6 as amended: an iteration that drains records of two distinct
\* addresses, at least one of them not registered when it began, publishes
\* exactly once, a snapshot holding both; in no case does it publish twice.
C6_TwoNewDrainedOnePublication ==
    [][CycleEnd =>
          /\ npub' \in {npub, npub + 1}
          /\ (/\ Cardinality(AddrsOf(drained)) >= 2
              /\ ~(AddrsOf(drained) \subseteq DOMAIN cycle_start))
                => (npub' = npub + 1 /\ HoldsDrained(last_pub'[1]))]_vars

\* the first publication held two entries: both records were drained in one
\* iteration
C6_Witness ==
    /\ pc = "sleep"
    /\ npub = 1
    /\ Cardinality(last_pub[1]) = 2
    /\ Cardinality(DOMAIN services) = 2

\* C7 as claimed: an iteration whose drain receives nothing leaves the
\* registry as it was and publishes nothing.
C7_EmptyDrainChangesNothing ==
    [][(CycleEnd /\ drained = <<>>) =>
          (services' = cycle_start /\ npub' = npub)]_vars

\* C7 as amended: an iteration whose drain receives nothing, and in which no
\* entry has reached the timeout, leaves the registry as it was and publishes
\* nothing.
C7_EmptyDrainNoExpiryChangesNothing ==
    [][(/\ CycleEnd
        /\ drained = <<>>
        /\ \A a \in DOMAIN services : now - services[a].last_seen < TIMEOUT) =>
          (/\ services' = cycle_start
           /\ npub' = npub
           /\ UNCHANGED <<last_pub, stdout, file>>)]_vars

\* the only record was published once, and at least two iterations with an
\* empty drain have run since with the entry still registered
C7_Witness ==
    /\ pc = "sleep"
    /\ chan = <<>>
    /\ nsent = 1
    /\ npub = 1
    /\ services # Empty
    /\ ExpiryTime - only_sent[1].last_seen >= INTERVAL + INTERVAL

\* C8 as claimed (first half): without a path argument every iteration
\* prints the snapshot to standard output.
C8_StdoutEveryCycle ==
    [][(CycleEnd /\ out = "None") => npub' = npub + 1]_vars

\* C8 as amended: with or without a path argument, the snapshot is written
\* in exactly the iterations in which the set of registered addresses
\* changed: to standard output without a path (never to a file), to the
\* path with one (never to standard output).
C8_WrittenOnChangeOnly ==
    [][CycleEnd =>
          LET changed == DOMAIN services' # DOMAIN cycle_start
              snapshot == {[targets |-> << <<services'[a].addr.ip, ":",
                                             services'[a].port>> >>,
                            labels |-> [name |-> services'[a].name]] :
                              a \in DOMAIN services'}
          IN /\ (npub' = npub + 1) <=> changed
             /\ ~changed => UNCHANGED <<npub, last_pub, stdout, file>>
             /\ changed => last_pub' = Some(snapshot)
             /\ out = "None" =>
                   /\ file' = file
                   /\ (changed /\ pc' = "sleep") => stdout' = Some(snapshot)
             /\ out = "Some" =>
                   /\ stdout' = stdout
                   /\ changed => file' \in {file, Some(snapshot)}]_vars

\* without a path: one line was printed, and later iterations printed none
C8_Witness ==
    /\ out = "None"
    /\ pc = "sleep"
    /\ npub = 1
    /\ stdout # None
    /\ stdout[1] # {}
    /\ ExpiryTime >= INTERVAL + INTERVAL

\* C9 as claimed: once the stream's error has been printed, the producer is
\* still running and goes on handling responses.
C9_ProducerSurvivesError ==
    stderr > 0 => dpc = "running"

\* C10 as claimed: once discovery has failed to start, the main loop takes
\* no further step.
C10_StartupFailureStopsLoop ==
    [][dpc = "panicked" => (pc' = pc /\ now' = now)]_vars

\* a step that takes the publishing branch and leaves the sink without the
\* snapshot it serialized: the write failed
WriteFails ==
    /\ npub' = npub + 1
    /\ \/ out = "Some" /\ file' # last_pub'
       \/ out = "None" /\ stdout' # last_pub'

\* C11: a failed write of the snapshot is swallowed: the registry is what the
\* expiry step left, the main thread is not ended by it, and it goes to the
\* sleep that the next iteration follows.
C11_WriteErrorSwallowed ==
    [][WriteFails =>
          /\ services' = Retain(services, now)
          /\ pc' = "sleep"
          /\ wake_at' = now + INTERVAL]_vars

\* a response that has a record named SERVICE_NAME, an address record, an
\* SRV record of the service and a TXT record with a pair name=...
Complete(response) ==
    /\ \E i \in 1..Len(response) : response[i].name = SERVICE_NAME
    /\ \E i \in 1..Len(response) : response[i].kind.tag \in {"A", "AAAA"}
    /\ \E i \in 1..Len(response) :
          /\ response[i].kind.tag = "SRV"
          /\ Contains(response[i].name, SERVICE_NAME)
    /\ \E i \in 1..Len(response) :
          /\ response[i].kind.tag = "TXT"
          /\ \E k \in 1..Len(response[i].kind.txt) :
                LET pair == response[i].kind.txt[k]
                IN Len(pair) >= 2 /\ pair[1] = "name" /\ pair[2] = "="

\* C12: the closure sends a record exactly when the response has a record
\* named SERVICE_NAME and an address, a port and a name can be taken from
\* it; a response that lacks one of them leaves the channel, the registry and
\* the count of publications alone, and as long as nothing was sent the
\* registry is empty and nothing is published.
C12_SendOnlyIfComplete ==
    /\ [](sent_log = <<>> => (chan = <<>> /\ services = Empty /\ npub = 0))
    /\ [][nresp' # nresp =>
            IF Complete(last_response'[1])
            THEN /\ Len(sent_log') = Len(sent_log) + 1
                 /\ chan' = Append(chan, sent_log'[Len(sent_log')])
            ELSE /\ sent_log' = sent_log
                 /\ chan' = chan
                 /\ services' = services
                 /\ npub' = npub]_vars

\* responses that lack something came, iterations passed, and nothing was
\* sent, inserted or published
C12_Witness ==
    /\ nresp = MaxLogResponses
    /\ last_response # None
    /\ ~Complete(last_response[1])
    /\ \E i \in 1..Len(last_response[1]) :
          last_response[1][i].name = SERVICE_NAME
    /\ sent_log = <<>>
    /\ pc = "sleep"
    /\ ExpiryTime >= 2 * INTERVAL
    /\ npub = 0

\* C13: an iteration whose drained records are all of addresses the registry
\* already held, and whose expiry removes nothing, publishes nothing, whatever
\* names and ports the records brought: the sinks keep the old snapshot.
C13_ReplacementNotPublished ==
    [][(/\ CycleEnd
        /\ AddrsOf(drained) \subseteq DOMAIN cycle_start
        /\ DOMAIN services' = DOMAIN services)
       => (npub' = npub /\ UNCHANGED <<last_pub, stdout, file>>)]_vars

\* the registry holds a name and a port that the published snapshot lacks,
\* for an address that is in both
C13_Witness ==
    /\ pc = "sleep"
    /\ npub = 1
    /\ last_pub # None
    /\ Snapshot(services) # last_pub[1]
    /\ \E a \in DOMAIN services : \E e \in last_pub[1] :
          /\ e.targets[1][1] = a.ip
          /\ e.targets[1] # Format(a, services[a].port)
          /\ e.labels.name # services[a].name
    /\ Cardinality(last_pub[1]) = Size(services)

\* C14: after a write that failed, an iteration whose three sizes are equal
\* does not take the publishing branch and leaves the sinks as they are: the
\* snapshot that was not written is not written later on its own, and the
\* publishing branch is taken only in an iteration with a size transition.
C14_FailedWriteNotRetried ==
    [][(/\ CycleEnd
        /\ Cardinality(DOMAIN cycle_start) = Cardinality(DOMAIN services)
        /\ Cardinality(DOMAIN services) = Cardinality(DOMAIN services'))
       => (npub' = npub /\ UNCHANGED <<last_pub, stdout, file>>)]_vars

\* the only write failed, and at least two iterations later the file is still
\* without the snapshot of the registry, which holds the one record sent
C14_Witness ==
    /\ out = "Some"
    /\ pc = "sleep"
    /\ npub = 1
    /\ file = None
    /\ last_pub = Some(Snapshot(services))
    /\ nsent = 1
    /\ only_sent # None
    /\ only_sent[1].addr \in DOMAIN services
    /\ ExpiryTime - only_sent[1].last_seen >= 3 * INTERVAL

\* C15 as claimed: while and after the drain, the entry of every address
\* received in this iteration has last_seen equal to the time of the drain.
C15_StampedAtDrain ==
    pc = "drain" => \A a \in AddrsOf(drained) : services[a].last_seen = now

\* C15: a record is stamped with the clock when it is sent; the drain copies
\* that stamp, which is not after the time of the drain, into the entry; and
\* the expiry step of the iteration that received a record keeps its entry.
C15_StampedAtSend ==
    /\ [][Len(chan') > Len(chan) => chan'[Len(chan')].last_seen = now]_vars
    /\ [][(pc = "drain" /\ Len(chan') < Len(chan)) =>
            /\ services'[chan[1].addr].last_seen = chan[1].last_seen
            /\ chan[1].last_seen <= now]_vars
    /\ [][CycleEnd =>
            \A a \in AddrsOf(drained) :
               /\ now - LastFor(a, drained).last_seen < TIMEOUT
               /\ a \in DOMAIN services']_vars

\* an entry received in this iteration carries a stamp older than the drain
C15_Witness ==
    /\ pc = "drain"
    /\ chan = <<>>
    /\ \E a \in AddrsOf(drained) :
          /\ services[a].last_seen < now
          /\ services[a] = LastFor(a, drained)
          /\ a \in DOMAIN cycle_start

\* C16: the records inserted so far, followed by the records in the channel,
\* are the records sent, in the order they were sent: none is lost, doubled or
\* overtaken.  While the main thread sleeps, the channel holds only records
\* sent since the drain of this iteration ended: every record sent before the
\* end of a drain was inserted by that drain, and the others wait for the
\* next one.
C16_FifoLossless ==
    /\ applied_log \o chan = sent_log
    /\ pc = "sleep" =>
          \A i \in 1..Len(chan) : chan[i].last_seen >= ExpiryTime

\* two different records were sent and one drain inserted both, in order
C16_Witness ==
    /\ pc = "drain"
    /\ chan = <<>>
    /\ Len(drained) = 2
    /\ drained[1] # drained[2]
    /\ drained = sent_log
    /\ applied_log = sent_log

\* a pair of a TXT record whose key, the text before its first '=', is name
IsNamePair(pair) == Len(pair) >= 2 /\ pair[1] = "name" /\ pair[2] = "="

HasNamePair(record) ==
    /\ record.kind.tag = "TXT"
    /\ \E k \in 1..Len(record.kind.txt) : IsNamePair(record.kind.txt[k])

\* of the first TXT record with such a pair, and of its first such pair, all
\* the text after the first '='
NameAfterFirstEquals(response) ==
    LET i == CHOOSE i \in 1..Len(response) :
                 /\ HasNamePair(response[i])
                 /\ \A j \in 1..(i - 1) : ~HasNamePair(response[j])
        txt == response[i].kind.txt
        k == CHOOSE k \in 1..Len(txt) :
                 /\ IsNamePair(txt[k])
                 /\ \A j \in 1..(k - 1) : ~IsNamePair(txt[j])
    IN SubSeq(txt[k], 3, Len(txt[k]))

\* C17: the name of the record sent for a response is all the text after the
\* first '=' of the first name pair of the first TXT record that has one; a
\* value that holds a '=' is kept whole, and pairs without '=' or with
\* another key are passed over.
C17_NameIsTextAfterFirstEquals ==
    (last_response # None /\ Complete(last_response[1])) =>
        /\ sent_log # <<>>
        /\ sent_log[Len(sent_log)].name = NameAfterFirstEquals(last_response[1])

\* what a reader of the output sees: the file at the path, or the last line
\* on standard output
Sink == IF out = "Some" THEN file ELSE stdout

\* the addresses of the targets of a snapshot
TargetAddrs(snapshot) == {e.targets[1][1] : e \in snapshot}

\* C18: while the main thread sleeps after an iteration, if the sink holds
\* the snapshot serialized last (no write failed since), the addresses in the
\* sink are the addresses in the registry; before the first publication the
\* sink is empty and so is the registry.
C18_PublishedAddressesAreRegistry ==
    (pc = "sleep" /\ Sink = last_pub) =>
        (IF Sink = None THEN {} ELSE TargetAddrs(Sink[1]))
            = {a.ip : a \in DOMAIN services}

\* the sink holds the addresses of the registry with a name or port that the
\* registry has since replaced
C18_Witness ==
    /\ pc = "sleep"
    /\ Sink = last_pub
    /\ Sink # None
    /\ services # Empty
    /\ Sink[1] # Snapshot(services)
    /\ TargetAddrs(Sink[1]) = {a.ip : a \in DOMAIN services}

\* the producer thread has ended and tx is dropped
ProducerGone == dpc \in {"stopped", "panicked"}

\* every record in the registry or in the channel reaches the age TIMEOUT
\* within the time observed
Expirable ==
    /\ \A a \in DOMAIN services : services[a].last_seen + TIMEOUT <= MaxTime
    /\ \A i \in 1..Len(chan) : chan[i].last_seen + TIMEOUT <= MaxTime

\* C19: once the producer thread has ended, the main thread keeps looping:
\* its drain ends on the empty, disconnected channel and its sleep ends at
\* its deadline; after each expiry step no entry has reached the age TIMEOUT;
\* when the registry has emptied after a publication, the snapshot published
\* last is the empty one, and from then on nothing is published; and the
\* registry does become empty (unless a failed write to standard output has
\* ended the process).
C19_AfterProducerStops ==
    /\ []((ProducerGone /\ pc = "drain" /\ chan = <<>>) =>
             ENABLED (NoPublish \/ PublishFile \/ PublishStdout))
    /\ []((ProducerGone /\ pc = "sleep" /\ now >= wake_at) => ENABLED Wake)
    /\ []((ProducerGone /\ pc = "sleep") =>
             /\ \A a \in DOMAIN services :
                   ExpiryTime - services[a].last_seen < TIMEOUT
             /\ (services = Empty /\ npub > 0) => last_pub = Some({}))
    /\ [][(ProducerGone /\ chan = <<>> /\ services = Empty) =>
             npub' = npub]_vars
    /\ (ProducerGone /\ Expirable) ~>
          (pc = "exited" \/ (pc = "sleep" /\ services = Empty))

\* the producer has ended, the registry was emptied after a publication, the
\* empty snapshot is the last one published and another iteration has begun
C19_Witness ==
    /\ dpc = "stopped"
    /\ pc = "drain"
    /\ services = Empty
    /\ last_pub = Some({})
    /\ npub = 2
    /\ Sink = last_pub

\* C20 as claimed: every drain ends (the main thread reaches the expiry step
\* and its sleep, or ends), whatever the producer does meanwhile.
C20_DrainAlwaysEnds == (pc = "drain") ~> (pc # "drain")

\* C20: the drain never waits: while it runs the main thread has a step to
\* take, which is the end of the drain when the channel is empty; and once
\* the producer sends no more, the drain ends.
C20_DrainEndsWhenSendsStop ==
    /\ [](pc = "drain" => ENABLED MainStepFlood)
    /\ []((pc = "drain" /\ chan = <<>>) =>
             ENABLED (NoPublish \/ PublishFile \/ PublishStdout))
    /\ (pc = "drain" /\ ProducerGone) ~> (pc # "drain")

\* a drain in progress with records still queued after the producer ended
C20_Witness ==
    /\ pc = "drain"
    /\ ProducerGone
    /\ Len(chan) = MaxChan
    /\ services # Empty
====
